---------------------------- MODULE Spec2Model ----------------------------
(***************************************************************************)
(* Station allocation of manufacturing processes (src/code.py).            *)
(*                                                                         *)
(* The model follows allocate_processes_to_stations and                    *)
(* generate_summary_report.  Times are exact fixed-point numbers counted   *)
(* in tenths of a minute (0.4 min is 4, the default target 1.0 min is 10), *)
(* so that the comparisons and sums of the code are exact; the rounding of *)
(* binary floating point is outside the model.  A row of the table keeps   *)
(* the columns the allocator reads (id, expectedTimeInMin, machineType,    *)
(* dependency); the display column 'name' is copied next to the id and is  *)
(* not modelled.  The dependency list of a row is modelled as the set of   *)
(* its ids.                                                                *)
(***************************************************************************)
EXTENDS Integers, Sequences, FiniteSets, TLC

(***************************************************************************)
(* Bounds of the model.                                                    *)
(***************************************************************************)
MaxProcs == 3         \* rows of the process table: 1..MaxProcs
MaxDeps == 1          \* ids in a row's dependency list, both modes: 0..MaxDeps
MaxDepsModeA == 2     \* the same in the tables of Mode A alone
MaxDurSteps == 2      \* durations 0, 0.6, ..., 0.6 * MaxDurSteps minutes
MaxTargetSteps == 1   \* targets 1.0, 1.2, ..., 1.0 + 0.2 * MaxTargetSteps minutes
MaxCalls == 2         \* calls of the allocator in a row on the same inputs

(***************************************************************************)
(* Inputs.                                                                 *)
(***************************************************************************)
\* throughput_target=1.0, the default of the signature and the value main passes
DefaultTarget == 10

\* ids of the rows, in row order: row i of a table has id IdNames[i]
IdNames == <<"A", "B", "C", "D", "E">>

\* an id that no row of any table carries
MissingId == "Z"

\* machine types, listed in the order groupby sorts its keys
MachineOrder == <<"M1", "M2">>

MachineTypes == {MachineOrder[k] : k \in 1..Len(MachineOrder)}

Durations == {6 * k : k \in 0..MaxDurSteps}

Targets == {DefaultTarget + 2 * k : k \in 0..MaxTargetSteps}

\* the durations of the tables of Mode A alone: 0.3, 0.4 and 0.5 minutes
ShortDurations == {3, 4, 5}

TableIds(n) == {IdNames[i] : i \in 1..n}

DependencyLists(n, max) ==
    {D \in SUBSET (TableIds(n) \cup {MissingId}) : Cardinality(D) <= max}

\* the columns of a row other than its id, ranging over the given sets
Columns(durs, deps) ==
    [expectedTimeInMin : durs, machineType : MachineTypes, dependency : deps]

\* the table of n rows with unique ids whose other columns are given by f
TableOf(n, f) ==
    [i \in 1..n |-> [id |-> IdNames[i],
                     expectedTimeInMin |-> f[i].expectedTimeInMin,
                     machineType |-> f[i].machineType,
                     dependency |-> f[i].dependency]]

VARIABLES
    df,                     \* the process table, a sequence of rows
    respect_dependencies,   \* the mode: TRUE is Mode A, FALSE is Mode B
    throughput_target,      \* the time budget of a station
    stations,               \* the result being built, a sequence of stations
    station_id,             \* the number of the next station label
    allocated_processes,    \* Mode A: the ids allocated so far
    groups,                 \* Mode B: the machine types still to be packed
    pc,                     \* where the run is
    error,                  \* the ValueError raised, or NoError
    report,                 \* what generate_summary_report computed, or NoReport
    calls,                  \* the calls of the allocator made so far
    previous                \* the stations the call before this one returned

vars == <<df, respect_dependencies, throughput_target, stations, station_id,
          allocated_processes, groups, pc, error, report, calls, previous>>

NoError == [process_id |-> "", dep |-> ""]

NoReport == [total_stations |-> 0 - 1,
             total_waste_time |-> 0,
             total_machines_required |-> 0]

(***************************************************************************)
(* Helpers of the allocator.                                               *)
(***************************************************************************)
\* the characters of the decimal digits
DigitChars == <<"0", "1", "2", "3", "4", "5", "6", "7", "8", "9">>

\* str of a natural number: its decimal digits, the first one first
RECURSIVE DecimalDigits(_)
DecimalDigits(n) ==
    IF n < 10 THEN <<DigitChars[n + 1]>>
    ELSE DecimalDigits(n \div 10) \o <<DigitChars[(n % 10) + 1]>>

\* f"S{station_id}": the letter S followed by the digits of the number
StationLabel(n) == <<"S">> \o DecimalDigits(n)

\* [{'id': p['id'], ...} for p in rows]
RECURSIVE ProcessIds(_)
ProcessIds(rows) ==
    IF rows = <<>> THEN <<>>
    ELSE <<Head(rows).id>> \o ProcessIds(Tail(rows))

\* sum(p['expectedTimeInMin'] for p in rows)
RECURSIVE SumTime(_)
SumTime(rows) ==
    IF rows = <<>> THEN 0
    ELSE Head(rows).expectedTimeInMin + SumTime(Tail(rows))

\* faulty variant: the time in minutes is rounded down
CeilRoundedDown(t) == t \div 10

\* math.ceil of a time in minutes, the time being counted in tenths
Ceil(t) == 0 - ((0 - t) \div 10)

\* all(dep in allocated_processes for dep in process['dependency'])
DependenciesMet(process, allocated) ==
    \A dep \in process.dependency : dep \in allocated

\* df['id'].values
IdValues == {df[i].id : i \in 1..Len(df)}

(***************************************************************************)
(* Dependency validation (Mode A only).                                    *)
(***************************************************************************)
\* the dependency ids of row i that are the id of no row
InvalidDeps(i) == {dep \in df[i].dependency : dep \notin IdValues}

\* faulty variant: the validation looks at the first row only
FirstInvalidRowFirstOnly ==
    IF InvalidDeps(1) # {} THEN 1 ELSE 0

\* the first row, in table order, that declares an invalid dependency; 0 if none
FirstInvalidRow ==
    IF \E i \in 1..Len(df) : InvalidDeps(i) # {}
    THEN CHOOSE i \in 1..Len(df) :
            /\ InvalidDeps(i) # {}
            /\ \A j \in 1..(i - 1) : InvalidDeps(j) = {}
    ELSE 0

(***************************************************************************)
(* Mode A: one station per pass of the outer loop.                         *)
(***************************************************************************)
\* a row the first scan may take as seed
EligibleSeed(i, allocated) ==
    /\ df[i].id \notin allocated
    /\ DependenciesMet(df[i], allocated)

\* faulty variant: the scan keeps the last eligible row instead of the first
SeedRowLast(allocated) ==
    IF \E i \in 1..Len(df) : EligibleSeed(i, allocated)
    THEN CHOOSE i \in 1..Len(df) :
            /\ EligibleSeed(i, allocated)
            /\ \A j \in (i + 1)..Len(df) : ~EligibleSeed(j, allocated)
    ELSE 0

\* faulty variant: a row is a seed only if it fits the target by itself
SeedRowFitting(allocated) ==
    IF \E i \in 1..Len(df) :
          /\ EligibleSeed(i, allocated)
          /\ df[i].expectedTimeInMin <= throughput_target
    THEN CHOOSE i \in 1..Len(df) :
            /\ EligibleSeed(i, allocated)
            /\ df[i].expectedTimeInMin <= throughput_target
            /\ \A j \in 1..(i - 1) :
                  ~(/\ EligibleSeed(j, allocated)
                    /\ df[j].expectedTimeInMin <= throughput_target)
    ELSE 0

\* faulty variant: the scan does not skip the rows already allocated
SeedRowAllocatedToo(allocated) ==
    IF \E i \in 1..Len(df) : DependenciesMet(df[i], allocated)
    THEN CHOOSE i \in 1..Len(df) :
            /\ DependenciesMet(df[i], allocated)
            /\ \A j \in 1..(i - 1) : ~DependenciesMet(df[j], allocated)
    ELSE 0

\* the first row, in table order, that is unallocated with its dependencies
\* allocated; 0 if the scan finds none
SeedRow(allocated) ==
    IF \E i \in 1..Len(df) : EligibleSeed(i, allocated)
    THEN CHOOSE i \in 1..Len(df) :
            /\ EligibleSeed(i, allocated)
            /\ \A j \in 1..(i - 1) : ~EligibleSeed(j, allocated)
    ELSE 0

\* faulty variant: the second scan does not test the dependencies
JoinsIgnoringDeps(next_process, machine_type, current_station, allocated) ==
    /\ next_process.machineType = machine_type
    /\ SumTime(current_station) + next_process.expectedTimeInMin
          <= throughput_target

\* faulty variant: the second scan does not test the time budget
JoinsIgnoringTime(next_process, machine_type, current_station, allocated) ==
    /\ next_process.machineType = machine_type
    /\ DependenciesMet(next_process, allocated)

\* the test of the second scan on one unallocated row
Joins(next_process, machine_type, current_station, allocated) ==
    /\ next_process.machineType = machine_type
    /\ DependenciesMet(next_process, allocated)
    /\ SumTime(current_station) + next_process.expectedTimeInMin
          <= throughput_target

\* faulty variant: the second scan does not skip the allocated rows
RECURSIVE RescanNoSkip(_, _, _, _)
RescanNoSkip(i, machine_type, current_station, allocated) ==
    IF i > Len(df)
    THEN [current_station |-> current_station, allocated |-> allocated]
    ELSE IF df[i].machineType = machine_type
            /\ DependenciesMet(df[i], allocated)
            /\ SumTime(current_station) + df[i].expectedTimeInMin
                  <= throughput_target
    THEN RescanNoSkip(i + 1, machine_type, Append(current_station, df[i]),
                      allocated \cup {df[i].id})
    ELSE RescanNoSkip(i + 1, machine_type, current_station, allocated)

\* faulty variant: the rows that join are marked allocated only after the scan,
\* so the dependency test sees the allocated set as it was when the scan began
RECURSIVE RescanDeferred(_, _, _, _, _)
RescanDeferred(i, machine_type, current_station, allocated, seen) ==
    IF i > Len(df)
    THEN [current_station |-> current_station, allocated |-> allocated]
    ELSE IF df[i].id \in allocated
    THEN RescanDeferred(i + 1, machine_type, current_station, allocated, seen)
    ELSE IF Joins(df[i], machine_type, current_station, seen)
    THEN RescanDeferred(i + 1, machine_type, Append(current_station, df[i]),
                        allocated \cup {df[i].id}, seen)
    ELSE RescanDeferred(i + 1, machine_type, current_station, allocated, seen)

RescanLateMarking(i, machine_type, current_station, allocated) ==
    RescanDeferred(i, machine_type, current_station, allocated, allocated)

\* the second scan, from row i on: rows that join are appended to the station
\* and added to the allocated set at once
RECURSIVE Rescan(_, _, _, _)
Rescan(i, machine_type, current_station, allocated) ==
    IF i > Len(df)
    THEN [current_station |-> current_station, allocated |-> allocated]
    ELSE IF df[i].id \in allocated
    THEN Rescan(i + 1, machine_type, current_station, allocated)
    ELSE IF Joins(df[i], machine_type, current_station, allocated)
    THEN Rescan(i + 1, machine_type, Append(current_station, df[i]),
                allocated \cup {df[i].id})
    ELSE Rescan(i + 1, machine_type, current_station, allocated)

\* the station Mode A appends for the rows of current_station
StationOfModeA(current_station, n) ==
    [station_id |-> StationLabel(n),
     processes |-> ProcessIds(current_station),
     total_expected_time |-> SumTime(current_station),
     waste_time |-> throughput_target - SumTime(current_station),
     machines_required |-> 1]

(***************************************************************************)
(* Mode B: packing of one machine-type group.                              *)
(***************************************************************************)
\* faulty variant: a group holds every row of the table
GroupRowsUngrouped(machine_type) == df

\* the rows of one group, in table order
GroupRows(machine_type) ==
    SelectSeq(df, LAMBDA process : process.machineType = machine_type)

\* the machine types that occur in the table
GroupKeys == {df[i].machineType : i \in 1..Len(df)}

\* the first of the given keys in the order groupby iterates them
FirstKey(keys) ==
    MachineOrder[CHOOSE k \in 1..Len(MachineOrder) :
                    /\ MachineOrder[k] \in keys
                    /\ \A j \in 1..(k - 1) : MachineOrder[j] \notin keys]

\* the station Mode B appends for the rows of station_processes
StationOfModeB(station_processes, total_expected_time, n) ==
    [station_id |-> StationLabel(n),
     processes |-> ProcessIds(station_processes),
     total_expected_time |-> total_expected_time,
     waste_time |-> throughput_target - total_expected_time,
     machines_required |-> Ceil(total_expected_time)]

\* faulty variant: a row joins only when the total stays below the target
RECURSIVE PackRowsStrict(_, _)
PackRowsStrict(rows, st) ==
    IF rows = <<>> THEN st
    ELSE LET process == Head(rows) IN
        IF st.total_expected_time + process.expectedTimeInMin
              < throughput_target
        THEN PackRowsStrict(Tail(rows),
                [st EXCEPT
                    !.station_processes = Append(@, process),
                    !.total_expected_time = @ + process.expectedTimeInMin])
        ELSE PackRowsStrict(Tail(rows),
                [stations |-> Append(st.stations,
                                StationOfModeB(st.station_processes,
                                               st.total_expected_time,
                                               st.station_id)),
                 station_id |-> st.station_id + 1,
                 station_processes |-> <<process>>,
                 total_expected_time |-> process.expectedTimeInMin])

\* faulty variant: the total is not reset when a new station is started
RECURSIVE PackRowsKeepTotal(_, _)
PackRowsKeepTotal(rows, st) ==
    IF rows = <<>> THEN st
    ELSE LET process == Head(rows) IN
        IF st.total_expected_time + process.expectedTimeInMin
              <= throughput_target
        THEN PackRowsKeepTotal(Tail(rows),
                [st EXCEPT
                    !.station_processes = Append(@, process),
                    !.total_expected_time = @ + process.expectedTimeInMin])
        ELSE PackRowsKeepTotal(Tail(rows),
                [stations |-> Append(st.stations,
                                StationOfModeB(st.station_processes,
                                               st.total_expected_time,
                                               st.station_id)),
                 station_id |-> st.station_id + 1,
                 station_processes |-> <<process>>,
                 total_expected_time |->
                    st.total_expected_time + process.expectedTimeInMin])

\* the loop over the rows of a group; st holds the loop's variables
RECURSIVE PackRows(_, _)
PackRows(rows, st) ==
    IF rows = <<>> THEN st
    ELSE LET process == Head(rows) IN
        IF st.total_expected_time + process.expectedTimeInMin
              <= throughput_target
        THEN PackRows(Tail(rows),
                [st EXCEPT
                    !.station_processes = Append(@, process),
                    !.total_expected_time = @ + process.expectedTimeInMin])
        ELSE PackRows(Tail(rows),
                [stations |-> Append(st.stations,
                                StationOfModeB(st.station_processes,
                                               st.total_expected_time,
                                               st.station_id)),
                 station_id |-> st.station_id + 1,
                 station_processes |-> <<process>>,
                 total_expected_time |-> process.expectedTimeInMin])

\* faulty variant: the station still open at the end of a group is dropped
PackGroupResultNoFlush(machine_type, sts, n) ==
    LET st == PackRows(GroupRows(machine_type),
                       [stations |-> sts,
                        station_id |-> n,
                        station_processes |-> <<>>,
                        total_expected_time |-> 0])
    IN  [stations |-> st.stations, station_id |-> st.station_id]

\* faulty variant: the station numbers start again at 1 in every group
PackGroupResultRenumbered(machine_type, sts, n) ==
    LET st == PackRows(GroupRows(machine_type),
                       [stations |-> sts,
                        station_id |-> 1,
                        station_processes |-> <<>>,
                        total_expected_time |-> 0])
    IN  IF st.station_processes # <<>>
        THEN [stations |-> Append(st.stations,
                              StationOfModeB(st.station_processes,
                                             st.total_expected_time,
                                             st.station_id)),
              station_id |-> st.station_id + 1]
        ELSE [stations |-> st.stations, station_id |-> st.station_id]

\* one group: the loop, then the station still open if it has rows
PackGroupResult(machine_type, sts, n) ==
    LET st == PackRows(GroupRows(machine_type),
                       [stations |-> sts,
                        station_id |-> n,
                        station_processes |-> <<>>,
                        total_expected_time |-> 0])
    IN  IF st.station_processes # <<>>
        THEN [stations |-> Append(st.stations,
                              StationOfModeB(st.station_processes,
                                             st.total_expected_time,
                                             st.station_id)),
              station_id |-> st.station_id + 1]
        ELSE [stations |-> st.stations, station_id |-> st.station_id]

(***************************************************************************)
(* The summary report.                                                     *)
(***************************************************************************)
\* faulty variant: the report sums the work time instead of the waste time
RECURSIVE SumWasteOfTotals(_)
SumWasteOfTotals(sts) ==
    IF sts = <<>> THEN 0
    ELSE Head(sts).total_expected_time + SumWasteOfTotals(Tail(sts))

\* sum(station['waste_time'] for station in stations)
RECURSIVE SumWaste(_)
SumWaste(sts) ==
    IF sts = <<>> THEN 0 ELSE Head(sts).waste_time + SumWaste(Tail(sts))

\* sum(station['machines_required'] for station in stations)
RECURSIVE SumMachines(_)
SumMachines(sts) ==
    IF sts = <<>> THEN 0
    ELSE Head(sts).machines_required + SumMachines(Tail(sts))

(***************************************************************************)
(* Initial states: a call of allocate_processes_to_stations.               *)
(***************************************************************************)
InitCall(durs, maxdeps, targets, modes) ==
    /\ \E n \in 1..MaxProcs :
          \E f \in [1..n -> Columns(durs, DependencyLists(n, maxdeps))] :
              df = TableOf(n, f)
    /\ respect_dependencies \in modes
    /\ throughput_target \in targets
    /\ stations = <<>>
    /\ station_id = 1
    /\ allocated_processes = {}
    /\ groups = {}
    /\ pc = "called"
    /\ error = NoError
    /\ report = NoReport
    /\ calls = 1
    /\ previous = <<>>

\* a call in either mode
Init == InitCall(Durations, MaxDeps, Targets, BOOLEAN)

\* a call in Mode A with the default target
InitModeA == InitCall(ShortDurations, MaxDepsModeA, {DefaultTarget}, {TRUE})

(***************************************************************************)
(* Actions.                                                                *)
(***************************************************************************)
\* lines 62-67: the validation finds an invalid dependency and raises
RaiseInvalidDependency ==
    /\ pc = "called"
    /\ respect_dependencies
    /\ FirstInvalidRow # 0
    /\ pc' = "raised"
    /\ error' = [process_id |-> df[FirstInvalidRow].id,
                 dep |-> CHOOSE dep \in InvalidDeps(FirstInvalidRow) : TRUE]
    /\ UNCHANGED <<previous, calls, df, respect_dependencies,
                   throughput_target, stations,
                   station_id, allocated_processes, groups, report>>

\* lines 62-67: the validation passes
ValidateDependencies ==
    /\ pc = "called"
    /\ respect_dependencies
    /\ FirstInvalidRow = 0
    /\ pc' = "allocating"
    /\ UNCHANGED <<previous, calls, df, respect_dependencies,
                   throughput_target, stations,
                   station_id, allocated_processes, groups, error, report>>

\* lines 69-101: a pass of the outer loop that finds a seed
AllocateStation ==
    /\ pc = "allocating"
    /\ Cardinality(allocated_processes) < Len(df)
    /\ SeedRow(allocated_processes) # 0
    /\ LET process == df[SeedRow(allocated_processes)]
           scan == Rescan(1, process.machineType, <<process>>,
                          allocated_processes \cup {process.id})
       IN  /\ stations' = Append(stations,
                            StationOfModeA(scan.current_station, station_id))
           /\ allocated_processes' = scan.allocated
    /\ station_id' = station_id + 1
    /\ UNCHANGED <<previous, calls, df, respect_dependencies,
                   throughput_target, groups, pc,
                   error, report>>

\* faulty variant: a pass that finds no seed raises instead of returning
NoProgressRaises ==
    /\ pc = "allocating"
    /\ Cardinality(allocated_processes) < Len(df)
    /\ SeedRow(allocated_processes) = 0
    /\ pc' = "raised"
    /\ error' = [process_id |-> "", dep |-> MissingId]
    /\ UNCHANGED <<previous, calls, df, respect_dependencies,
                   throughput_target, stations,
                   station_id, allocated_processes, groups, report>>

\* lines 69-104: a pass of the outer loop that finds no seed, and the return
NoProgress ==
    /\ pc = "allocating"
    /\ Cardinality(allocated_processes) < Len(df)
    /\ SeedRow(allocated_processes) = 0
    /\ pc' = "returned"
    /\ UNCHANGED <<previous, calls, df, respect_dependencies,
                   throughput_target, stations,
                   station_id, allocated_processes, groups, error, report>>

\* lines 69, 138: the loop condition fails, and the return
AllAllocated ==
    /\ pc = "allocating"
    /\ ~(Cardinality(allocated_processes) < Len(df))
    /\ pc' = "returned"
    /\ UNCHANGED <<previous, calls, df, respect_dependencies,
                   throughput_target, stations,
                   station_id, allocated_processes, groups, error, report>>

\* line 107: df.groupby('machineType')
GroupByMachineType ==
    /\ pc = "called"
    /\ ~respect_dependencies
    /\ groups' = GroupKeys
    /\ pc' = "grouping"
    /\ UNCHANGED <<previous, calls, df, respect_dependencies,
                   throughput_target, stations,
                   station_id, allocated_processes, error, report>>

\* lines 109-136: one group of the loop over the groups
PackGroup ==
    /\ pc = "grouping"
    /\ groups # {}
    /\ LET machine_type == FirstKey(groups)
           res == PackGroupResult(machine_type, stations, station_id)
       IN  /\ stations' = res.stations
           /\ station_id' = res.station_id
           /\ groups' = groups \ {machine_type}
    /\ UNCHANGED <<previous, calls, df, respect_dependencies,
                   throughput_target,
                   allocated_processes, pc, error, report>>

\* lines 109, 138: the groups are exhausted, and the return
GroupsDone ==
    /\ pc = "grouping"
    /\ groups = {}
    /\ pc' = "returned"
    /\ UNCHANGED <<previous, calls, df, respect_dependencies,
                   throughput_target, stations,
                   station_id, allocated_processes, groups, error, report>>

\* lines 141-144: the totals generate_summary_report computes from the result
GenerateSummaryReport ==
    /\ pc = "returned"
    /\ report' = [total_stations |-> Len(stations),
                  total_waste_time |-> SumWaste(stations),
                  total_machines_required |-> SumMachines(stations)]
    /\ pc' = "reported"
    /\ UNCHANGED <<previous, calls, df, respect_dependencies,
                   throughput_target, stations,
                   station_id, allocated_processes, groups, error>>

Next ==
    \/ RaiseInvalidDependency
    \/ ValidateDependencies
    \/ AllocateStation
    \/ NoProgress
    \/ AllAllocated
    \/ GroupByMachineType
    \/ PackGroup
    \/ GroupsDone
    \/ GenerateSummaryReport

Spec == Init /\ [][Next]_vars

\* the steps of a run in Mode A
NextModeA ==
    \/ RaiseInvalidDependency
    \/ ValidateDependencies
    \/ AllocateStation
    \/ NoProgress
    \/ AllAllocated
    \/ GenerateSummaryReport

SpecModeA == InitModeA /\ [][NextModeA]_vars

\* a call in Mode A on a table of short dependency lists
InitModeAFair == InitCall(ShortDurations, MaxDeps, {DefaultTarget}, {TRUE})

\* the call runs on one thread without suspension: a step that can be taken
\* is taken
SpecModeAFair ==
    InitModeAFair /\ [][NextModeA]_vars /\ WF_vars(NextModeA)

\* faulty variant: the set of allocated ids outlives the call
AllocatedCarriedOver(old) == old

\* line 60: allocated_processes = set(), a local made anew at every call
AllocatedAtEntry(old) == {}

\* lines 46, 58-60: the same call is made once more after the return; the
\* stations of the call that returned are kept for comparison
CallAgain ==
    /\ pc = "returned"
    /\ calls < MaxCalls
    /\ previous' = stations
    /\ calls' = calls + 1
    /\ stations' = <<>>
    /\ station_id' = 1
    /\ allocated_processes' = AllocatedAtEntry(allocated_processes)
    /\ groups' = {}
    /\ pc' = "called"
    /\ UNCHANGED <<df, respect_dependencies, throughput_target, error, report>>

\* the steps of calls made one after the other on the same inputs
NextRepeated ==
    \/ Next
    \/ CallAgain

SpecRepeated == Init /\ [][NextRepeated]_vars

(***************************************************************************)
(* Vocabulary of the properties.                                           *)
(***************************************************************************)
\* the call has returned its result
Returned == pc \in {"returned", "reported"}

ModeA == respect_dependencies

ModeB == ~respect_dependencies

\* the row that carries the id
RowOfId(id) == df[CHOOSE i \in 1..Len(df) : df[i].id = id]

\* the places <<k, j>> of the result: station k, member j
Places == {<<k, j>> \in (1..Len(stations)) \X (1..MaxProcs + 1) :
              j <= Len(stations[k].processes)}

\* the ids listed in station k
MembersOf(k) ==
    {stations[k].processes[j] : j \in 1..Len(stations[k].processes)}

\* the ids listed in the stations before station k
MembersBefore(k) == UNION {MembersOf(h) : h \in 1..(k - 1)}

\* the ids listed anywhere in the result
Placed == MembersBefore(Len(stations) + 1)

\* the duration of the first j members of station k
RECURSIVE TimeOfFirst(_, _)
TimeOfFirst(k, j) ==
    IF j = 0 THEN 0
    ELSE RowOfId(stations[k].processes[j]).expectedTimeInMin
            + TimeOfFirst(k, j - 1)

(***************************************************************************)
(* C1.  With unique process ids, in both modes and for every target, the   *)
(* result holds each process id at most once: in at most one station, and  *)
(* at most once in that station's list.                                    *)
(***************************************************************************)
C1_NoDuplicateAssignment ==
    Returned =>
        \A id \in IdValues :
            Cardinality({pl \in Places :
                            stations[pl[1]].processes[pl[2]] = id}) <= 1

\* Mode A has returned three rows in two stations, one of them of two rows
C1_Witness ==
    /\ pc = "returned"
    /\ ModeA
    /\ Len(df) = 3
    /\ Placed = IdValues
    /\ Len(stations) = 2
    /\ \E k \in 1..Len(stations) : Len(stations[k].processes) = 2

(***************************************************************************)
(* C2.  Mode A: every id in the dependency list of a process of the result *)
(* is in the result too, in the same station or in an earlier one.         *)
(***************************************************************************)
C2_DependenciesAtOrBefore ==
    (ModeA /\ Returned) =>
        \A k \in 1..Len(stations) :
            \A id \in MembersOf(k) :
                \A dep \in RowOfId(id).dependency :
                    \E h \in 1..k : dep \in MembersOf(h)

\* a process with two dependencies is placed, one dependency in its own
\* station and the other in an earlier station
C2_Witness ==
    /\ pc = "returned"
    /\ ModeA
    /\ \E k \in 2..Len(stations) :
          \E id \in MembersOf(k) :
              /\ Cardinality(RowOfId(id).dependency) = 2
              /\ \E dep \in RowOfId(id).dependency : dep \in MembersOf(k)
              /\ \E dep \in RowOfId(id).dependency : dep \in MembersBefore(k)

(***************************************************************************)
(* C3.  Mode A, durations not negative: a station's total_expected_time is *)
(* at most the target, unless the station holds exactly one process whose  *)
(* own duration exceeds the target; a station of two or more processes     *)
(* never exceeds the target.                                               *)
(***************************************************************************)
C3_TargetRespected ==
    ModeA =>
        \A k \in 1..Len(stations) :
            \/ stations[k].total_expected_time <= throughput_target
            \/ /\ Len(stations[k].processes) = 1
               /\ RowOfId(stations[k].processes[1]).expectedTimeInMin
                     > throughput_target

\* the result holds a station of one process over the target and a station
\* of two processes within the target
C3_Witness ==
    /\ pc = "returned"
    /\ ModeA
    /\ \E k \in 1..Len(stations) :
          /\ Len(stations[k].processes) = 1
          /\ stations[k].total_expected_time > throughput_target
    /\ \E k \in 1..Len(stations) :
          /\ Len(stations[k].processes) = 2
          /\ stations[k].total_expected_time > 0

(***************************************************************************)
(* C4.  Mode B: all the processes of a station have the same machineType.  *)
(***************************************************************************)
C4_OneMachineTypePerStation ==
    ModeB =>
        \A k \in 1..Len(stations) :
            \A id1, id2 \in MembersOf(k) :
                RowOfId(id1).machineType = RowOfId(id2).machineType

\* Mode B has returned a table of both machine types, with a station of two
\* processes
C4_Witness ==
    /\ pc = "returned"
    /\ ModeB
    /\ GroupKeys = MachineTypes
    /\ \E k \in 1..Len(stations) : Len(stations[k].processes) = 2

(***************************************************************************)
(* C5.  Mode A: when some process declares a dependency id that no row     *)
(* carries, the call raises the invalid-dependency error, which names a    *)
(* declaring process and its missing id, before any station is created or  *)
(* any process is marked allocated; it returns no result.                  *)
(***************************************************************************)
C5_InvalidDependencyRaises ==
    (ModeA /\ \E i \in 1..Len(df) : \E dep \in df[i].dependency :
                  dep \notin IdValues) =>
        /\ pc \in {"called", "raised"}
        /\ stations = <<>>
        /\ allocated_processes = {}
        /\ report = NoReport
        /\ pc = "called" =>
              (ENABLED RaiseInvalidDependency /\ ~ENABLED ValidateDependencies)
        /\ pc = "raised" =>
              /\ error.process_id \in IdValues
              /\ error.dep \in RowOfId(error.process_id).dependency
              /\ error.dep \notin IdValues

\* process B declares the dependency Z, no row has the id Z, and the error
\* raised names B and Z
C5_Witness ==
    /\ pc = "raised"
    /\ Len(df) >= 2
    /\ MissingId \in df[2].dependency
    /\ MissingId \notin df[1].dependency
    /\ error = [process_id |-> "B", dep |-> MissingId]

(***************************************************************************)
(* C6.  Mode A: the first member of every station is the first process in  *)
(* table order that, when the station is opened, is unallocated and has    *)
(* its whole dependency list allocated.  So the table A (0.4, M1, no       *)
(* dependency), B (0.3, M1, depends on A), C (0.5, M2, depends on A) with  *)
(* target 1.0 yields exactly the stations S1 = [A, B] and S2 = [C].        *)
(***************************************************************************)
ScenarioTableC6 ==
    <<[id |-> "A", expectedTimeInMin |-> 4, machineType |-> "M1",
       dependency |-> {}],
      [id |-> "B", expectedTimeInMin |-> 3, machineType |-> "M1",
       dependency |-> {"A"}],
      [id |-> "C", expectedTimeInMin |-> 5, machineType |-> "M2",
       dependency |-> {"A"}]>>

\* row i is unallocated with its dependencies allocated, the allocated ids
\* being those of the set prior
OpenRow(i, prior) ==
    /\ df[i].id \notin prior
    /\ df[i].dependency \subseteq prior

C6_SeedIsFirstEligible ==
    ModeA =>
        /\ \A k \in 1..Len(stations) :
              /\ stations[k].processes # <<>>
              /\ \E i \in 1..Len(df) :
                    /\ df[i].id = stations[k].processes[1]
                    /\ OpenRow(i, MembersBefore(k))
                    /\ \A j \in 1..(i - 1) : ~OpenRow(j, MembersBefore(k))
        /\ (Returned /\ df = ScenarioTableC6 /\ throughput_target = 10) =>
              /\ Len(stations) = 2
              /\ stations[1].station_id = <<"S", "1">>
              /\ stations[1].processes = <<"A", "B">>
              /\ stations[2].station_id = <<"S", "2">>
              /\ stations[2].processes = <<"C">>

\* the call on the table of the scenario has returned its two stations
C6_Witness ==
    /\ pc = "returned"
    /\ ModeA
    /\ df = ScenarioTableC6
    /\ throughput_target = 10
    /\ Len(stations) = 2

(***************************************************************************)
(* C7.  Mode B, inside one machine-type group and in table order: a        *)
(* process joins the open station when the accumulated duration plus its   *)
(* own is at most the target; otherwise the open station is closed and a   *)
(* new station starts with that process.  So two M1 processes of 0.6 each  *)
(* with target 1.0 yield two stations of one process each, each with       *)
(* machines_required = 1.                                                  *)
(***************************************************************************)
\* the ids of the result, station after station
RECURSIVE ResultIds(_)
ResultIds(k) ==
    IF k = 0 THEN <<>> ELSE ResultIds(k - 1) \o stations[k].processes

\* the ids of a sequence of ids that belong to rows of the machine type
IdsOfType(ids, machine_type) ==
    SelectSeq(ids, LAMBDA id : RowOfId(id).machineType = machine_type)

\* the ids of the rows of the table, in table order
TableIdSeq == [i \in 1..Len(df) |-> df[i].id]

\* the machine type of a station that is not empty
TypeOfStation(k) == RowOfId(stations[k].processes[1]).machineType

\* station k - 1 was the open station when the first member of station k
\* was met
ClosedFor(k) ==
    /\ k > 1
    /\ \/ stations[k - 1].processes = <<>>
       \/ TypeOfStation(k - 1) = TypeOfStation(k)

C7_PackingRule ==
    (ModeB /\ Returned) =>
        /\ \A m \in MachineTypes :
              IdsOfType(ResultIds(Len(stations)), m) = IdsOfType(TableIdSeq, m)
        /\ \A pl \in Places : pl[2] >= 2 =>
              TimeOfFirst(pl[1], pl[2]) <= throughput_target
        /\ \A k \in 1..Len(stations) : stations[k].processes # <<>> =>
              IF ClosedFor(k)
              THEN TimeOfFirst(k - 1, Len(stations[k - 1].processes))
                      + TimeOfFirst(k, 1) > throughput_target
              ELSE TimeOfFirst(k, 1) <= throughput_target
        /\ \A k \in 1..Len(stations) : stations[k].processes = <<>> =>
              /\ k < Len(stations)
              /\ stations[k + 1].processes # <<>>
              /\ k > 1 =>
                    /\ stations[k - 1].processes # <<>>
                    /\ TypeOfStation(k - 1) # TypeOfStation(k + 1)
        /\ (/\ Len(df) = 2
            /\ throughput_target = 10
            /\ \A i \in 1..2 : /\ df[i].machineType = "M1"
                               /\ df[i].expectedTimeInMin = 6) =>
              /\ Len(stations) = 2
              /\ stations[1].processes = <<"A">>
              /\ stations[2].processes = <<"B">>
              /\ stations[1].machines_required = 1
              /\ stations[2].machines_required = 1

\* the call on two M1 processes of 0.6 minutes with target 1.0 has returned
C7_Witness ==
    /\ pc = "returned"
    /\ ModeB
    /\ Len(df) = 2
    /\ throughput_target = 10
    /\ \A i \in 1..2 : /\ df[i].machineType = "M1"
                       /\ df[i].expectedTimeInMin = 6
    /\ Len(stations) = 2

(***************************************************************************)
(* C8.  For every result of the allocator with target T, in either mode,   *)
(* generate_summary_report computes total_stations as the number of        *)
(* stations and total_waste_time as the sum over the stations of           *)
(* T - total_expected_time; both are zero for the empty result.            *)
(***************************************************************************)
RECURSIVE SumOfUnused(_)
SumOfUnused(k) ==
    IF k = 0 THEN 0
    ELSE (throughput_target - stations[k].total_expected_time)
            + SumOfUnused(k - 1)

C8_SummaryTotals ==
    pc = "reported" =>
        /\ report.total_stations = Len(stations)
        /\ report.total_waste_time = SumOfUnused(Len(stations))
        /\ stations = <<>> =>
              (report.total_stations = 0 /\ report.total_waste_time = 0)

\* the report of a result of two stations or more with time left unused
C8_Witness ==
    /\ pc = "reported"
    /\ Len(stations) >= 2
    /\ report.total_stations = Len(stations)
    /\ report.total_waste_time > 0

(***************************************************************************)
(* C9.  Mode A, all dependency ids valid: when no unallocated process has  *)
(* all its dependencies allocated, the call raises no error and returns    *)
(* the stations built so far; the processes still unallocated are in no    *)
(* station of the result.                                                  *)
(***************************************************************************)
\* some process is unallocated and none of them can be a seed
Stuck ==
    /\ ModeA
    /\ pc = "allocating"
    /\ allocated_processes # IdValues
    /\ \A i \in 1..Len(df) : ~OpenRow(i, allocated_processes)

C9_SilentPartialResult ==
    /\ [][Stuck => (/\ pc' = "returned"
                    /\ stations' = stations
                    /\ allocated_processes' = allocated_processes
                    /\ error' = NoError)]_vars
    /\ []((ModeA /\ Returned) =>
            /\ error = NoError
            /\ \A id \in IdValues \ allocated_processes : id \notin Placed)

\* two processes depend on each other: the call has returned the station of
\* the third process, and the two are allocated nowhere
C9_Witness ==
    /\ pc = "returned"
    /\ ModeA
    /\ error = NoError
    /\ Len(stations) = 1
    /\ \E id1, id2 \in IdValues \ allocated_processes :
          /\ id1 # id2
          /\ id2 \in RowOfId(id1).dependency
          /\ id1 \in RowOfId(id2).dependency
          /\ {id1, id2} \cap Placed = {}

(***************************************************************************)
(* C10.  In both modes, a station's total_expected_time is the sum of the  *)
(* expectedTimeInMin of the processes listed in it, and its waste_time is  *)
(* throughput_target - total_expected_time.                                *)
(***************************************************************************)
C10_StationTotals ==
    \A k \in 1..Len(stations) :
        /\ stations[k].total_expected_time
              = TimeOfFirst(k, Len(stations[k].processes))
        /\ stations[k].waste_time
              = throughput_target - stations[k].total_expected_time

\* Mode B has returned a station of two processes after another station
C10_Witness ==
    /\ pc = "returned"
    /\ ModeB
    /\ \E k \in 2..Len(stations) :
          /\ Len(stations[k].processes) = 2
          /\ stations[k].total_expected_time > 0
          /\ stations[k].waste_time > 0

(***************************************************************************)
(* C11.  Machine count: every station of a Mode A result has               *)
(* machines_required = 1 whatever its total; every station of a Mode B     *)
(* result has machines_required = ceil(total_expected_time).               *)
(***************************************************************************)
\* the least whole number of minutes that is not less than t tenths
WholeMinutesOver(t) ==
    CHOOSE n \in 0..(t + 1) : 10 * n >= t /\ 10 * (n - 1) < t

C11_MachineCountPolicy ==
    \A k \in 1..Len(stations) :
        /\ ModeA => stations[k].machines_required = 1
        /\ ModeB => stations[k].machines_required
                       = WholeMinutesOver(stations[k].total_expected_time)

\* Mode B has returned a station of 1.2 minutes, which requires 2 machines,
\* and a station of 0.6 minutes, which requires 1
C11_Witness ==
    /\ pc = "returned"
    /\ ModeB
    /\ \E k \in 1..Len(stations) :
          /\ stations[k].total_expected_time = 12
          /\ stations[k].machines_required = 2
    /\ \E k \in 1..Len(stations) :
          /\ stations[k].total_expected_time = 6
          /\ stations[k].machines_required = 1

(***************************************************************************)
(* C13.  In both modes the k-th station of the result, k counted from 1,   *)
(* has the station_id "S" followed by k: the ids start at S1 and go up by  *)
(* one per station, without gap or repeat, also from one machine-type      *)
(* group of Mode B to the next.                                            *)
(***************************************************************************)
\* the number a sequence of decimal digits denotes; -1 if it is no number
RECURSIVE NumberOfDigits(_)
NumberOfDigits(digits) ==
    IF digits = <<>> THEN 0 - 1
    ELSE LET last == digits[Len(digits)]
             rest == SubSeq(digits, 1, Len(digits) - 1)
         IN  IF \A d \in 1..10 : DigitChars[d] # last THEN 0 - 1
             ELSE IF rest = <<>>
             THEN (CHOOSE d \in 1..10 : DigitChars[d] = last) - 1
             ELSE IF NumberOfDigits(rest) < 1 THEN 0 - 1
             ELSE 10 * NumberOfDigits(rest)
                     + (CHOOSE d \in 1..10 : DigitChars[d] = last) - 1

C13_SequentialStationIds ==
    \A k \in 1..Len(stations) :
        /\ Head(stations[k].station_id) = "S"
        /\ NumberOfDigits(Tail(stations[k].station_id)) = k

\* Mode B has returned three stations or more out of two machine-type groups
C13_Witness ==
    /\ pc = "returned"
    /\ ModeB
    /\ GroupKeys = MachineTypes
    /\ Len(stations) >= 3
    /\ stations[3].station_id = <<"S", "3">>

RowNumber(id) == CHOOSE i \in 1..Len(df) : df[i].id = id

\* the members of station k that were in it when row i was scanned: the seed
\* and the later members whose rows come before row i
InStationAt(k, i) ==
    {stations[k].processes[j] : j \in
        {h \in 1..Len(stations[k].processes) :
            h = 1 \/ RowNumber(stations[k].processes[h]) < i}}

\* the duration of a set of processes
RECURSIVE TimeOfSet(_)
TimeOfSet(ids) ==
    IF ids = {} THEN 0
    ELSE LET id == CHOOSE x \in ids : TRUE
         IN  RowOfId(id).expectedTimeInMin + TimeOfSet(ids \ {id})

\* row i, met by the scan that fills station k, passes the three tests
PassesAt(k, i) ==
    /\ df[i].machineType = TypeOfStation(k)
    /\ df[i].dependency \subseteq (MembersBefore(k) \cup InStationAt(k, i))
    /\ TimeOfSet(InStationAt(k, i)) + df[i].expectedTimeInMin
          <= throughput_target

C14_InclusionIsCumulative ==
    ModeA =>
        /\ \A k \in 1..Len(stations) :
              LET members == stations[k].processes IN
              \* the later members are in table order
              /\ \A h, j \in 2..Len(members) :
                    h < j => RowNumber(members[h]) < RowNumber(members[j])
              \* a row scanned while unallocated joins exactly when it passes
              /\ \A i \in 1..Len(df) :
                    (df[i].id \notin MembersBefore(k)
                        /\ df[i].id # members[1]) =>
                       (df[i].id \in MembersOf(k) <=> PassesAt(k, i))
        /\ (/\ Returned
            /\ Len(df) = 3
            /\ df[1].dependency = {}
            /\ df[2].dependency = {"A"}
            /\ df[3].dependency = {"B"}
            /\ \A i \in 1..3 : df[i].machineType = df[1].machineType
            /\ TimeOfSet(IdValues) <= throughput_target) =>
              /\ Len(stations) = 1
              /\ stations[1].processes = <<"A", "B", "C">>

\* the chain A, B (depends on A), C (depends on B) of one machine type has
\* been returned in one station
C14_Witness ==
    /\ pc = "returned"
    /\ ModeA
    /\ Len(df) = 3
    /\ df[1].dependency = {}
    /\ df[2].dependency = {"A"}
    /\ df[3].dependency = {"B"}
    /\ Len(stations) = 1
    /\ stations[1].processes = <<"A", "B", "C">>

(***************************************************************************)
(* C15.  Mode A terminates on every finite table: a pass of the outer loop *)
(* either marks one more process or more as allocated (the allocated set   *)
(* only grows and stays within the ids of the table) or leaves the loop;   *)
(* the loop is left exactly when all the ids are allocated or a full pass  *)
(* finds no eligible seed.                                                 *)
(***************************************************************************)
\* some row could be the seed of a new station
SomeSeed == \E i \in 1..Len(df) : OpenRow(i, allocated_processes)

\* a pass that allocates and stays in the loop
PassAllocates ==
    /\ pc' = "allocating"
    /\ allocated_processes \subseteq allocated_processes'
    /\ allocated_processes' # allocated_processes
    /\ allocated_processes' \subseteq IdValues
    /\ allocated_processes # IdValues
    /\ SomeSeed

\* the loop is left, with nothing more allocated
LoopLeft ==
    /\ pc' = "returned"
    /\ allocated_processes' = allocated_processes
    /\ stations' = stations
    /\ allocated_processes = IdValues \/ ~SomeSeed

C15_ModeATerminates ==
    /\ [][pc = "allocating" => (PassAllocates \/ LoopLeft)]_vars
    /\ [](allocated_processes \subseteq IdValues)
    /\ (pc = "allocating") ~> (pc = "returned")

\* the loop has been left after three passes that allocated one process each
C15_Witness ==
    /\ pc = "returned"
    /\ ModeA
    /\ Len(stations) = 3
    /\ allocated_processes = IdValues

(***************************************************************************)
(* C16.  Every station of a result has a processes list that is not empty, *)
(* in both modes, for durations not negative and a positive target, also   *)
(* when the first process of a machine-type group of Mode B is longer than *)
(* the target.                                                             *)
(*                                                                         *)
(* The code does not do this.  In Mode B, when the first process of a      *)
(* group is longer than the target, the test of line 113 fails while       *)
(* station_processes is still empty, and lines 117-123 append that empty   *)
(* station; only the append after the loop is guarded (line 128).          *)
(***************************************************************************)
C16_NoEmptyStation ==
    \A k \in 1..Len(stations) : stations[k].processes # <<>>

(***************************************************************************)
(* C17.  Mode A completeness: when every declared dependency id is an id   *)
(* of the table and the dependencies have no cycle, then for every         *)
(* positive target, also one smaller than every duration, every process of *)
(* the table is in exactly one station of the result.                      *)
(***************************************************************************)
\* the ids reached from the given ids along the dependencies in n steps or less
RECURSIVE ReachedFrom(_, _)
ReachedFrom(ids, n) ==
    IF n = 0 THEN ids
    ELSE ReachedFrom(
            ids \cup UNION {RowOfId(id).dependency : id \in ids \cap IdValues},
            n - 1)

AllDependenciesValid ==
    \A i \in 1..Len(df) : df[i].dependency \subseteq IdValues

Acyclic ==
    \A i \in 1..Len(df) : df[i].id \notin ReachedFrom(df[i].dependency, Len(df))

\* the id is at exactly one place of the result
PlacedOnce(id) ==
    Cardinality({pl \in Places : stations[pl[1]].processes[pl[2]] = id}) = 1

C17_ModeAComplete ==
    (ModeA /\ Returned /\ AllDependenciesValid /\ Acyclic) =>
        \A id \in IdValues : PlacedOnce(id)

\* three processes in a chain of dependencies, each longer than the target,
\* have been returned in three stations
C17_Witness ==
    /\ pc = "returned"
    /\ ModeA
    /\ Len(df) = 3
    /\ \A i \in 1..3 : df[i].expectedTimeInMin > throughput_target
    /\ df[1].dependency = {"B"}
    /\ df[2].dependency = {"C"}
    /\ df[3].dependency = {}
    /\ Len(stations) = 3
    /\ \A id \in IdValues : PlacedOnce(id)

(***************************************************************************)
(* C18.  Mode B completeness: with unique ids, whatever the dependency     *)
(* lists hold (missing ids, cycles), no dependency error is raised and     *)
(* every process of the table is in exactly one station of the result.     *)
(***************************************************************************)
C18_ModeBComplete ==
    ModeB =>
        /\ pc # "raised"
        /\ error = NoError
        /\ Returned => \A id \in IdValues : PlacedOnce(id)

\* Mode B has returned all the rows of a table in which a row depends on a
\* missing id, a row depends on itself and a row is longer than the target
C18_Witness ==
    /\ pc = "returned"
    /\ ModeB
    /\ \E i \in 1..Len(df) : MissingId \in df[i].dependency
    /\ \E i \in 1..Len(df) : df[i].id \in df[i].dependency
    /\ \E i \in 1..Len(df) : df[i].expectedTimeInMin > throughput_target
    /\ \A id \in IdValues : PlacedOnce(id)

=============================================================================
